---- MODULE Spec2Model ----
(***************************************************************************)
(* Sensor hub: a sampling thread (SensorDataCollector) filters the         *)
(* readings of three sensors into one shared DataSet, and an upload        *)
(* thread (SensorDataUploader) reads that DataSet and reports it through   *)
(* the QthClient.  Both threads are modelled statement by statement        *)
(* around the DataSet's lock.                                              *)
(*                                                                         *)
(* Sensor values are floats in the program; the model uses integers, so    *)
(* that the differences 0, 1 (not significant) and 2 (significant) all     *)
(* occur.  The drivers and the client are inputs: each call returns any    *)
(* value of a small set, or raises.                                        *)
(***************************************************************************)
EXTENDS Integers, Sequences, FiniteSets, TLC

\* ------------------------------------------------------------- bounds
\* Spec: each sensor returns one of MaxLevel+1 readings, two units apart.
MaxLevel == 1
\* SpecSampling: each metric ranges independently over Base..Base+MaxDelta.
MaxDelta == 2
\* At most MaxTicks sampling ticks are counted within one upload tick.
MaxTicks == 2

\* ------------------------------------------------- program constants
\* abs(v - prev) > 1
Threshold == 1
\* for _ in range(30)
HandshakeAttempts == 30
\* for i in range(10)
RetryAttempts == 10

\* ------------------------------------------------------------ values
\* Python's None is the empty tuple, a value v is the tuple <<v>>.
None == <<>>
Some(v) == <<v>>

Abs(x) == IF x < 0 THEN -x ELSE x

\* a dict with no key
EmptyMap == [k \in {} |-> k]

\* d.update({k: v})
Update(d, k, v) == [x \in DOMAIN d \cup {k} |-> IF x = k THEN v ELSE d[x]]

\* getTempAndHumi() returns (temp1, humi)
CoarseShtc3 == {<<20 + 2 * k, 50 + 2 * k>> : k \in 0..MaxLevel}
FineShtc3 == (20..(20 + MaxDelta)) \X (50..(50 + MaxDelta))
\* getTempAndPressure() returns (press, temp2)
CoarseLps22hb == {<<1000 + 2 * k, 30 + 2 * k>> : k \in 0..MaxLevel}
FineLps22hb == (1000..(1000 + MaxDelta)) \X (30..(30 + MaxDelta))
\* getRGBValue() returns a packed 24-bit value: 0x102030, 0xFF8001
CoarseRGB == {1056816}
FineRGB == {1056816, 16744449}

\* utime.ticks_ms() // 1000; one value of each cadence class:
\* 100 (5 s), 101 (none), 1800 (5 s, 60 s, 1800 s), 1860 (5 s, 60 s)
TimeStamps == {100, 101, 1800, 1860}

\* a client call returns True or False, or raises
ClientResults == {"true", "false", "raise"}

VARIABLES
    data_set,    \* DataSet: temp1, humi, press, temp2, rgb888
    lock,        \* DataSet.lock: "free", or the thread that acquired it
    prev,        \* prev_temp1, prev_humi, prev_temp2, prev_press
    cpc,         \* the collector's position
    lastRead,    \* the reading the latest driver call of this tick returned,
                 \* None when it raised
    faults,      \* the sensors whose read failed in this sampling tick
    written,     \* per metric, the latest non-None value written to the set
    tick,        \* sampling ticks begun since the uploader took the lock
    unsent,      \* the metrics whose field holds a value written inside the
                 \* upload loop that no sendTsl call has been passed, every
                 \* status check and sendTsl call since having returned True
    upc,         \* the uploader's position
    i,           \* the index of the running for loop
    calls,       \* client calls made by the running for loop
    sleeps,      \* utime.sleep(1) calls made by the running for loop
    result,      \* what the latest client call of the running loop returned
    ctx,         \* "init" before the while loop, "tick" inside it
    timestamp,   \* the uploader's local timestamp
    data,        \* the uploader's local data (a dict)
    dataBound,   \* whether the local data has been assigned
    tsl,         \* the sendTsl calls of this upload tick:
                 \* <<profile, payload, outcome>>
    status,      \* what the status check of this upload tick returned
    runs,        \* the location retry runs started in this upload tick
    caught,      \* what raised the exception that "except Exception" caught
                 \* in this upload tick
    readTick     \* per field read in this upload tick: <<tick, collector inside>>

vars == <<data_set, lock, prev, cpc, lastRead, faults, written, tick, unsent,
          upc, i, calls, sleeps, result, ctx, timestamp, data, dataBound, tsl,
          status, runs, caught, readTick>>

collectorVars == <<prev, cpc, lastRead, faults, written, tick, unsent>>
uploaderVars == <<upc, i, calls, sleeps, result, ctx, timestamp, data, dataBound, tsl,
                  status, runs, caught, readTick>>
loopVars == <<i, calls, sleeps, result, ctx>>
tickData == <<timestamp, data, dataBound, tsl, status, runs, readTick>>
tickVars == <<tickData, caught>>

Metrics == {"temp1", "humi", "temp2", "press"}

\* the positions inside "with self.data_set:"
CollectorSection == {"shtc3", "lps22hb", "tcs34725", "dataShow"}
UploaderSection == {"isStatusOk", "rgb888", "temp1", "humi", "temp2", "press",
                    "sendTsl", "cadence1800", "cadence60", "exit"}
UploaderRetry == {"sendLbs", "sendLbsSleep", "sendLbsSuccess", "sendLbsFail",
                  "sendGnss", "sendGnssSleep", "sendGnssSuccess", "sendGnssFail"}
CollectorInside == cpc \in CollectorSection
UploaderInside == upc \in UploaderSection \/ (upc \in UploaderRetry /\ ctx = "tick")

\* ---------------------------------------------------------------- Init
Init ==
    /\ data_set = [temp1 |-> Some(0), humi |-> Some(0), press |-> Some(0),
                   temp2 |-> Some(0), rgb888 |-> 0]
    /\ lock = "free"
    /\ prev = [m \in Metrics |-> None]
    /\ cpc = "enter"
    /\ lastRead = None
    /\ faults = {}
    /\ written = [m \in Metrics |-> None]
    /\ tick = 0
    /\ unsent = {}
    /\ upc = "start"
    /\ i = 0
    /\ calls = 0
    /\ sleeps = 0
    /\ result = "none"
    /\ ctx = "init"
    /\ timestamp = 0
    /\ data = EmptyMap
    /\ dataBound = FALSE
    /\ tsl = <<>>
    /\ status = "none"
    /\ runs = <<>>
    /\ caught = "none"
    /\ readTick = EmptyMap

\* ---------------------------------------------------------------- lock
\* DataSet.__enter__: self.lock.acquire() blocks until the lock is free
\* (mutant: an acquire that does not wait for the lock)
AcquireNoWait(who) == lock' = who
Acquire(who) == lock = "free" /\ lock' = who

\* DataSet.__exit__: self.lock.release()
Release == lock' = "free"

\* ------------------------------------------------------- ChangeFilter
\* "prev is None or abs(v - prev) > 1"
\* (mutant: ">=" for ">")
SignificantInclusive(v, p) == p = None \/ Abs(v - p[1]) >= Threshold
Significant(v, p) == p = None \/ Abs(v - p[1]) > Threshold

\* "data_set.m = prev_m = v" or "data_set.m = None"
FilterField(v, p) == IF Significant(v, p) THEN Some(v) ELSE None
\* (mutant: the memo follows every sample)
FilterPrevLastSample(v, p) == Some(v)
FilterPrev(v, p) == IF Significant(v, p) THEN Some(v) ELSE p

\* the latest non-None value written to a field
Written(old, field) == IF field # None THEN field ELSE old

\* the fields ms have been written: those that now hold a value are still
\* to be sent, once the upload thread is in its loop
Unsent(old, ms, set) ==
    (old \ ms) \cup {m \in ms : ctx = "tick" /\ set[m] # None}

\* --------------------------------------------------------- collector
\* getSensorData: with self.data_set
CollectorEnter ==
    /\ cpc = "enter"
    /\ Acquire("collector")
    /\ cpc' = "shtc3"
    /\ faults' = {}
    /\ lastRead' = None
    /\ tick' = IF UploaderInside /\ tick < MaxTicks THEN tick + 1 ELSE tick
    /\ UNCHANGED <<data_set, prev, written, unsent, uploaderVars>>

\* (mutant: one try block around the three reads, so that a failing
\* shtc3 read skips the other two)
ReadShtc3OneTry(readings) ==
    /\ cpc = "shtc3"
    /\ \/ \E r \in readings :
            /\ lastRead' = r
            /\ data_set' = [data_set EXCEPT
                              !.temp1 = FilterField(r[1], prev.temp1),
                              !.humi = FilterField(r[2], prev.humi)]
            /\ prev' = [prev EXCEPT
                          !.temp1 = FilterPrev(r[1], prev.temp1),
                          !.humi = FilterPrev(r[2], prev.humi)]
            /\ written' = [written EXCEPT
                             !.temp1 = Written(@, data_set'.temp1),
                             !.humi = Written(@, data_set'.humi)]
            /\ unsent' = Unsent(unsent, {"temp1", "humi"}, data_set')
            /\ cpc' = "lps22hb"
            /\ UNCHANGED faults
       \/ /\ lastRead' = None
          /\ faults' = faults \cup {"shtc3"}
          /\ cpc' = "dataShow"
          /\ UNCHANGED <<data_set, prev, written, unsent>>
    /\ UNCHANGED <<lock, tick, uploaderVars>>

\* the try block of self.shtc3.getTempAndHumi()
ReadShtc3(readings) ==
    /\ cpc = "shtc3"
    /\ \/ \E r \in readings :
            /\ lastRead' = r
            /\ data_set' = [data_set EXCEPT
                              !.temp1 = FilterField(r[1], prev.temp1),
                              !.humi = FilterField(r[2], prev.humi)]
            /\ prev' = [prev EXCEPT
                          !.temp1 = FilterPrev(r[1], prev.temp1),
                          !.humi = FilterPrev(r[2], prev.humi)]
            /\ written' = [written EXCEPT
                             !.temp1 = Written(@, data_set'.temp1),
                             !.humi = Written(@, data_set'.humi)]
            /\ unsent' = Unsent(unsent, {"temp1", "humi"}, data_set')
            /\ UNCHANGED faults
       \/ /\ lastRead' = None
          /\ faults' = faults \cup {"shtc3"}
          /\ UNCHANGED <<data_set, prev, written, unsent>>
    /\ cpc' = "lps22hb"
    /\ UNCHANGED <<lock, tick, uploaderVars>>

\* the try block of self.lps22hb.getTempAndPressure()
ReadLps22hb(readings) ==
    /\ cpc = "lps22hb"
    /\ \/ \E r \in readings :
            /\ lastRead' = r
            /\ data_set' = [data_set EXCEPT
                              !.temp2 = FilterField(r[2], prev.temp2),
                              !.press = FilterField(r[1], prev.press)]
            /\ prev' = [prev EXCEPT
                          !.temp2 = FilterPrev(r[2], prev.temp2),
                          !.press = FilterPrev(r[1], prev.press)]
            /\ written' = [written EXCEPT
                             !.temp2 = Written(@, data_set'.temp2),
                             !.press = Written(@, data_set'.press)]
            /\ unsent' = Unsent(unsent, {"temp2", "press"}, data_set')
            /\ UNCHANGED faults
       \/ /\ lastRead' = None
          /\ faults' = faults \cup {"lps22hb"}
          /\ UNCHANGED <<data_set, prev, written, unsent>>
    /\ cpc' = "tcs34725"
    /\ UNCHANGED <<lock, tick, uploaderVars>>

\* the try block of self.tcs34725.getRGBValue()
ReadTcs34725(readings) ==
    /\ cpc = "tcs34725"
    /\ \/ \E r \in readings :
            /\ lastRead' = <<r>>
            /\ data_set' = [data_set EXCEPT !.rgb888 = r]
            /\ UNCHANGED faults
       \/ /\ lastRead' = None
          /\ faults' = faults \cup {"tcs34725"}
          /\ UNCHANGED data_set
    /\ cpc' = "dataShow"
    /\ UNCHANGED <<lock, prev, written, tick, unsent, uploaderVars>>

\* (mutant: a paired acquire/release whose release is skipped on the path
\* of a failed sensor read)
CollectorExitKeepLockOnFault ==
    /\ cpc = "dataShow"
    /\ IF faults = {} THEN Release ELSE UNCHANGED lock
    /\ cpc' = "sleep"
    /\ lastRead' = None
    /\ faults' = {}
    /\ UNCHANGED <<data_set, prev, written, tick, unsent, uploaderVars>>
\* self.data_set.dataShow(), then the with block's __exit__
CollectorExit ==
    /\ cpc = "dataShow"
    /\ Release
    /\ cpc' = "sleep"
    /\ lastRead' = None
    /\ faults' = {}
    /\ UNCHANGED <<data_set, prev, written, tick, unsent, uploaderVars>>

\* SensorDataCollector.__call__: utime.sleep(1), then the next getSensorData()
CollectorSleep ==
    /\ cpc = "sleep"
    /\ cpc' = "enter"
    /\ UNCHANGED <<data_set, lock, prev, lastRead, faults, written, tick, unsent, uploaderVars>>

\* the sampling thread alone, every metric ranging over its own values
NextSampling ==
    \/ CollectorEnter
    \/ ReadShtc3(FineShtc3)
    \/ ReadLps22hb(FineLps22hb)
    \/ ReadTcs34725(FineRGB)
    \/ CollectorExit
    \/ CollectorSleep

SpecSampling == Init /\ [][NextSampling]_vars

\* (mutant: the set's lock taken before the handshake and kept when the
\* thread returns)
UploaderStartLocked ==
    /\ upc = "start"
    /\ \/ upc' = "handshake" /\ Acquire("uploader")
       \/ upc' = "crashed" /\ UNCHANGED lock
    /\ UNCHANGED <<data_set, collectorVars, loopVars, tickVars>>
\* ---------------------------------------------------------- uploader
\* SensorDataUploader.__call__: self.qth_client.start()
UploaderStart ==
    /\ upc = "start"
    /\ \/ upc' = "handshake"
       \/ upc' = "crashed"
    /\ UNCHANGED <<data_set, lock, collectorVars, loopVars, tickVars>>

\* for _ in range(30): if self.qth_client.isStatusOk(): break
HandshakeCheck ==
    /\ upc = "handshake"
    /\ \E r \in ClientResults :
          /\ upc' = CASE r = "true" -> "active"
                      [] r = "false" -> "handshakeSleep"
                      [] OTHER -> "crashed"
          /\ IF r = "raise"
               THEN i' = 0 /\ calls' = 0 /\ sleeps' = 0 /\ result' = "none"
               ELSE calls' = calls + 1 /\ result' = r /\ UNCHANGED <<i, sleeps>>
    /\ UNCHANGED <<data_set, lock, collectorVars, ctx, tickVars>>

\* (mutant: one round too many)
HandshakeSleepOneMore ==
    /\ upc = "handshakeSleep"
    /\ sleeps' = sleeps + 1
    /\ IF i + 1 <= HandshakeAttempts
         THEN i' = i + 1 /\ upc' = "handshake"
         ELSE i' = i /\ upc' = "aborted"
    /\ UNCHANGED <<data_set, lock, collectorVars, calls, result, ctx, tickVars>>

\* utime.sleep(1), then the next round of the loop or its else branch:
\* logger.error("can not connect to qth server, exist!!!"); return
HandshakeSleep ==
    /\ upc = "handshakeSleep"
    /\ sleeps' = sleeps + 1
    /\ IF i + 1 < HandshakeAttempts
         THEN i' = i + 1 /\ upc' = "handshake"
         ELSE i' = i /\ upc' = "aborted"
    /\ UNCHANGED <<data_set, lock, collectorVars, calls, result, ctx, tickVars>>

\* self.sendLbs(), the first statement after the handshake
InitialSendLbs ==
    /\ upc = "active"
    /\ upc' = "sendLbs"
    /\ i' = 0 /\ calls' = 0 /\ sleeps' = 0 /\ result' = "none"
    /\ UNCHANGED <<data_set, lock, collectorVars, ctx, tickVars>>

\* (mutant: no break on success)
RetryCallNoBreak(at) ==
    /\ upc = at
    /\ \E r \in ClientResults :
          /\ upc' = CASE r = "raise" -> IF ctx = "tick" THEN "exit" ELSE "crashed"
                      [] OTHER -> at \o "Sleep"
          /\ IF r = "raise"
               THEN i' = 0 /\ calls' = 0 /\ sleeps' = 0 /\ result' = "none"
               ELSE calls' = calls + 1 /\ result' = r /\ UNCHANGED <<i, sleeps>>
          /\ caught' = IF r = "raise" /\ ctx = "tick" THEN at ELSE caught
    /\ UNCHANGED <<data_set, lock, collectorVars, ctx, tickData>>

\* one round of "for i in range(10)": the client call; a True result
\* breaks, an exception leaves the function (caught only inside the
\* upload tick's try block)
RetryCall(at) ==
    /\ upc = at
    /\ \E r \in ClientResults :
          /\ upc' = CASE r = "true" -> at \o "Success"
                      [] r = "false" -> at \o "Sleep"
                      [] OTHER -> IF ctx = "tick" THEN "exit" ELSE "crashed"
          /\ IF r = "raise"
               THEN i' = 0 /\ calls' = 0 /\ sleeps' = 0 /\ result' = "none"
               ELSE calls' = calls + 1 /\ result' = r /\ UNCHANGED <<i, sleeps>>
          /\ caught' = IF r = "raise" /\ ctx = "tick" THEN at ELSE caught
    /\ UNCHANGED <<data_set, lock, collectorVars, ctx, tickData>>

\* utime.sleep(1) after a failed call, then the next round or the else
\* branch of the loop
RetrySleep(at) ==
    /\ upc = at \o "Sleep"
    /\ sleeps' = sleeps + 1
    /\ IF i + 1 < RetryAttempts
         THEN i' = i + 1 /\ upc' = at
         ELSE i' = i /\ upc' = at \o "Fail"
    /\ UNCHANGED <<data_set, lock, collectorVars, calls, result, ctx, tickVars>>

\* SensorDataUploader.sendLbs
SendLbsCall == RetryCall("sendLbs")
SendLbsSleep == RetrySleep("sendLbs")

\* sendLbs returns: to self.sendGnss() at start-up, to the 60 s cadence
\* check inside the upload tick
SendLbsReturn ==
    /\ upc \in {"sendLbsSuccess", "sendLbsFail"}
    /\ upc' = IF ctx = "init" THEN "sendGnss" ELSE "cadence60"
    /\ i' = 0 /\ calls' = 0 /\ sleeps' = 0 /\ result' = "none"
    /\ UNCHANGED <<data_set, lock, collectorVars, ctx, tickVars>>

\* SensorDataUploader.sendGnss
SendGnssCall == RetryCall("sendGnss")
SendGnssSleep == RetrySleep("sendGnss")

\* sendGnss returns: to the while loop at start-up, to the end of the
\* try block inside the upload tick
SendGnssReturn ==
    /\ upc \in {"sendGnssSuccess", "sendGnssFail"}
    /\ upc' = IF ctx = "init" THEN "enter" ELSE "exit"
    /\ i' = 0 /\ calls' = 0 /\ sleeps' = 0 /\ result' = "none" /\ ctx' = "tick"
    /\ UNCHANGED <<data_set, lock, collectorVars, tickVars>>

\* while True: with self.data_set
\* (mutant: the upload tick's body run without "with self.data_set")
UploaderEnterUnlocked ==
    /\ upc = "enter"
    /\ upc' = "isStatusOk"
    /\ tick' = 0
    /\ UNCHANGED <<data_set, lock, prev, cpc, lastRead, faults, written, unsent, loopVars, tickVars>>
UploaderEnter ==
    /\ upc = "enter"
    /\ Acquire("uploader")
    /\ upc' = "isStatusOk"
    /\ tick' = 0
    /\ UNCHANGED <<data_set, prev, cpc, lastRead, faults, written, unsent, loopVars, tickVars>>

\* (mutant: the tick's body run whatever the status check returned)
StatusCheckIgnored ==
    /\ upc = "isStatusOk"
    /\ \E r \in ClientResults :
          /\ status' = r
          /\ caught' = IF r = "raise" THEN "isStatusOk" ELSE caught
          /\ unsent' = IF r = "true" THEN unsent ELSE {}
          /\ IF r # "raise"
               THEN /\ upc' = "rgb888"
                    /\ \E t \in TimeStamps : t >= timestamp /\ timestamp' = t
               ELSE /\ upc' = "exit"
                    /\ UNCHANGED timestamp
    /\ UNCHANGED <<data_set, lock, prev, cpc, lastRead, faults, written, tick, loopVars,
                   data, dataBound, tsl, runs, readTick>>
\* if self.qth_client.isStatusOk(): timestamp = utime.ticks_ms() // 1000
\* else: logger.error(...); an exception goes to "except Exception".
\* The clock does not run backwards (its wrap-around is left out).
StatusCheck ==
    /\ upc = "isStatusOk"
    /\ \E r \in ClientResults :
          /\ status' = r
          /\ caught' = IF r = "raise" THEN "isStatusOk" ELSE caught
          /\ unsent' = IF r = "true" THEN unsent ELSE {}
          /\ IF r = "true"
               THEN /\ upc' = "rgb888"
                    /\ \E t \in TimeStamps : t >= timestamp /\ timestamp' = t
               ELSE /\ upc' = "exit"
                    /\ UNCHANGED timestamp
    /\ UNCHANGED <<data_set, lock, prev, cpc, lastRead, faults, written, tick, loopVars,
                   data, dataBound, tsl, runs, readTick>>

\* (rgb888 >> 16) & 0xFF, (rgb888 >> 8) & 0xFF, rgb888 & 0xFF
Channels(rgb) == <<(rgb \div 65536) % 256, (rgb \div 256) % 256, rgb % 256>>

\* the uploader reads a field of the set
Stamp(f) == Update(readTick, f, <<tick, CollectorInside>>)

\* if timestamp % 5 == 0: data = {7: {1: .., 2: .., 3: ..}}
ColorGroup ==
    /\ upc = "rgb888"
    /\ IF timestamp % 5 = 0
         THEN /\ data' = Update(EmptyMap, 7, Channels(data_set.rgb888))
              /\ dataBound' = TRUE
              /\ readTick' = Stamp("rgb888")
         ELSE UNCHANGED <<data, dataBound, readTick>>
    /\ upc' = "temp1"
    /\ UNCHANGED <<data_set, lock, collectorVars, loopVars, timestamp, tsl, status, runs, caught>>

\* if self.data_set.m is not None: data.update({key: self.data_set.m});
\* with data unassigned the update raises UnboundLocalError
MetricGroup(m, key, next) ==
    /\ upc = m
    /\ readTick' = Stamp(m)
    /\ IF data_set[m] = None
         THEN upc' = next /\ UNCHANGED <<data, caught>>
         ELSE IF dataBound
                THEN /\ upc' = next
                     /\ data' = Update(data, key, data_set[m][1])
                     /\ UNCHANGED caught
                ELSE upc' = "exit" /\ caught' = "data" /\ UNCHANGED data
    /\ UNCHANGED <<data_set, lock, collectorVars, loopVars, timestamp, dataBound, tsl, status, runs>>

UploadTemp1 == MetricGroup("temp1", 3, "humi")
UploadHumi == MetricGroup("humi", 4, "temp2")
UploadTemp2 == MetricGroup("temp2", 5, "press")
UploadPress == MetricGroup("press", 6, "sendTsl")

\* the keys of the metrics in the payload
MetricKey == [temp1 |-> 3, humi |-> 4, temp2 |-> 5, press |-> 6]

\* the metrics whose field's value is in the payload d
Carried(d) ==
    {m \in Metrics : /\ data_set[m] # None
                     /\ MetricKey[m] \in DOMAIN d
                     /\ d[MetricKey[m]] = data_set[m][1]}

\* result = self.qth_client.sendTsl(1, data); with data unassigned the
\* argument raises UnboundLocalError and the client is not called
SendTsl ==
    /\ upc = "sendTsl"
    /\ IF dataBound
         THEN \E r \in ClientResults :
                 /\ tsl' = Append(tsl, <<1, data, r>>)
                 /\ upc' = IF r = "raise" THEN "exit" ELSE "cadence1800"
                 /\ unsent' = IF r = "true" THEN unsent \ Carried(data) ELSE {}
                 /\ caught' = IF r = "raise" THEN "sendTsl" ELSE caught
         ELSE upc' = "exit" /\ caught' = "data" /\ UNCHANGED <<tsl, unsent>>
    /\ UNCHANGED <<data_set, lock, prev, cpc, lastRead, faults, written, tick, loopVars,
                   timestamp, data, dataBound, status, runs, readTick>>

\* if timestamp % 1800 == 0: self.sendLbs()
Cadence1800 ==
    /\ upc = "cadence1800"
    /\ IF timestamp % 1800 = 0
         THEN upc' = "sendLbs" /\ runs' = Append(runs, "sendLbs")
         ELSE upc' = "cadence60" /\ UNCHANGED runs
    /\ UNCHANGED <<data_set, lock, collectorVars, loopVars, timestamp, data, dataBound, tsl,
                   status, caught, readTick>>

\* (mutant: the satellite report at the colour group's cadence)
Cadence60Every5 ==
    /\ upc = "cadence60"
    /\ IF timestamp % 5 = 0
         THEN upc' = "sendGnss" /\ runs' = Append(runs, "sendGnss")
         ELSE upc' = "exit" /\ UNCHANGED runs
    /\ UNCHANGED <<data_set, lock, collectorVars, loopVars, timestamp, data, dataBound, tsl,
                   status, caught, readTick>>
\* if timestamp % 60 == 0: self.sendGnss()
Cadence60 ==
    /\ upc = "cadence60"
    /\ IF timestamp % 60 = 0
         THEN upc' = "sendGnss" /\ runs' = Append(runs, "sendGnss")
         ELSE upc' = "exit" /\ UNCHANGED runs
    /\ UNCHANGED <<data_set, lock, collectorVars, loopVars, timestamp, data, dataBound, tsl,
                   status, caught, readTick>>

\* (mutant: the tick's utime.sleep(1) indented into the with block, the
\* lock not yet released when the sleep begins)
UploaderExitSleepInside ==
    /\ upc = "exit"
    /\ upc' = "sleep"
    /\ tsl' = <<>>
    /\ status' = "none"
    /\ runs' = <<>>
    /\ caught' = "none"
    /\ readTick' = EmptyMap
    /\ UNCHANGED <<data_set, lock, collectorVars, loopVars, timestamp, data, dataBound>>
\* the with block's __exit__, on every way out of the try block
UploaderExit ==
    /\ upc = "exit"
    /\ Release
    /\ upc' = "sleep"
    /\ tsl' = <<>>
    /\ status' = "none"
    /\ runs' = <<>>
    /\ caught' = "none"
    /\ readTick' = EmptyMap
    /\ UNCHANGED <<data_set, collectorVars, loopVars, timestamp, data, dataBound>>

\* utime.sleep(1), then the next round of "while True"
UploaderSleep ==
    /\ upc = "sleep"
    /\ upc' = "enter"
    /\ UNCHANGED <<data_set, lock, collectorVars, loopVars, tickVars>>

\* both threads, interleaved statement by statement
Next ==
    \/ CollectorEnter
    \/ ReadShtc3(CoarseShtc3)
    \/ ReadLps22hb(CoarseLps22hb)
    \/ ReadTcs34725(CoarseRGB)
    \/ CollectorExit
    \/ CollectorSleep
    \/ UploaderStart
    \/ HandshakeCheck
    \/ HandshakeSleep
    \/ InitialSendLbs
    \/ SendLbsCall
    \/ SendLbsSleep
    \/ SendLbsReturn
    \/ SendGnssCall
    \/ SendGnssSleep
    \/ SendGnssReturn
    \/ UploaderEnter
    \/ StatusCheck
    \/ ColorGroup
    \/ UploadTemp1
    \/ UploadHumi
    \/ UploadTemp2
    \/ UploadPress
    \/ SendTsl
    \/ Cadence1800
    \/ Cadence60
    \/ UploaderExit
    \/ UploaderSleep

Spec == Init /\ [][Next]_vars

\* the steps of the upload thread
Uploading ==
    \/ UploaderStart
    \/ HandshakeCheck
    \/ HandshakeSleep
    \/ InitialSendLbs
    \/ SendLbsCall
    \/ SendLbsSleep
    \/ SendLbsReturn
    \/ SendGnssCall
    \/ SendGnssSleep
    \/ SendGnssReturn
    \/ UploaderEnter
    \/ StatusCheck
    \/ ColorGroup
    \/ UploadTemp1
    \/ UploadHumi
    \/ UploadTemp2
    \/ UploadPress
    \/ SendTsl
    \/ Cadence1800
    \/ Cadence60
    \/ UploaderExit
    \/ UploaderSleep

\* the steps of the sampling thread with sensors that return one reading
\* or fail: which paths the two threads take depends on a reading only
\* through its being significant (the first one is) or not (the later ones)
SteadyShtc3 == {<<20, 50>>}
SteadyLps22hb == {<<1000, 30>>}
SamplingSteady ==
    \/ CollectorEnter
    \/ ReadShtc3(SteadyShtc3)
    \/ ReadLps22hb(SteadyLps22hb)
    \/ ReadTcs34725(CoarseRGB)
    \/ CollectorExit
    \/ CollectorSleep

NextSteady == SamplingSteady \/ Uploading

\* _thread.start_new_thread: the scheduler runs each of the two threads
\* whenever it can take a step (sleeps and client calls return)
SpecFair ==
    Init /\ [][NextSteady]_vars /\ WF_vars(SamplingSteady) /\ WF_vars(Uploading)

\* the same with a fair lock: a thread that is waiting in DataSet.__enter__
\* and finds the lock free again and again gets it
SpecFairLock == SpecFair /\ SF_vars(CollectorEnter) /\ SF_vars(UploaderEnter)

\* ------------------------------------------------------------ claims
Fields == {"temp1", "humi", "temp2", "press", "rgb888"}

\* C1: the field values the uploader reads in one upload tick never mix
\* sampling ticks: every read of the tick is made with the collector
\* outside its guarded section, and no sampling tick begins between two
\* reads of the tick, also when sensor reads have failed.
C1_ConsistentSnapshot ==
    \A f \in DOMAIN readTick :
        /\ readTick[f][2] = FALSE
        /\ \A g \in DOMAIN readTick : readTick[f][1] = readTick[g][1]

\* the uploader has read all five fields while the collector waits for the
\* lock, after a sampling tick in which the shtc3 read failed and the
\* lps22hb read succeeded
C1_Witness ==
    /\ upc = "sendTsl"
    /\ DOMAIN readTick = Fields
    /\ cpc = "enter"
    /\ data_set.temp1 = Some(0)
    /\ data_set.temp2 # Some(0)

\* at most one thread is inside its guarded section, and it holds the lock
MutualExclusion ==
    /\ ~(CollectorInside /\ UploaderInside)
    /\ CollectorInside => lock = "collector"
    /\ UploaderInside => lock = "uploader"

\* C2: at most one thread is inside its guarded section, the thread
\* inside holds the lock, the set changes only in a step of the collector
\* holding the lock, and the uploader reads a field only holding the lock.
C2_GuardedAccess ==
    [][/\ MutualExclusion
       /\ MutualExclusion'
       /\ data_set' # data_set => CollectorInside /\ lock = "collector"
       /\ (readTick' # readTick /\ readTick' # EmptyMap)
             => UploaderInside /\ lock = "uploader"]_vars

\* the uploader is reading the set while the collector waits for the lock
C2_Witness ==
    /\ upc = "humi"
    /\ lock = "uploader"
    /\ cpc = "enter"
    /\ DOMAIN readTick = {"rgb888", "temp1"}

\* what the change filter is to do with a sample v of a metric whose memo
\* is p: f and q are the metric's field and memo afterwards
Filtered(v, p, f, q) ==
    /\ p = None => f = <<v>> /\ q = <<v>>
    /\ (p # None /\ (v - p[1] > 1 \/ p[1] - v > 1)) => f = <<v>> /\ q = <<v>>
    /\ (p # None /\ v - p[1] <= 1 /\ p[1] - v <= 1) => f = None /\ q = p

\* C3: for each of temp1, humidity, temp2 and pressure, a sample v is
\* reported and becomes the memo when the memo is unset or |v - memo| > 1;
\* when |v - memo| <= 1, exactly 1 included, the field becomes None and
\* the memo stays.
C3_ChangeFilter ==
    [][/\ (cpc = "shtc3" /\ lastRead' # None) =>
             /\ Filtered(lastRead'[1], prev.temp1, data_set'.temp1, prev'.temp1)
             /\ Filtered(lastRead'[2], prev.humi, data_set'.humi, prev'.humi)
       /\ (cpc = "lps22hb" /\ lastRead' # None) =>
             /\ Filtered(lastRead'[1], prev.press, data_set'.press, prev'.press)
             /\ Filtered(lastRead'[2], prev.temp2, data_set'.temp2, prev'.temp2)]_vars

\* a temp1 sample exactly 1 away from the memo has been filtered out while
\* the humidity sample of the same read, 2 away from its memo, was reported
C3_Witness ==
    /\ cpc = "lps22hb"
    /\ lastRead # None
    /\ prev.temp1 # None
    /\ Abs(lastRead[1] - prev.temp1[1]) = 1
    /\ data_set.temp1 = None
    /\ data_set.humi = <<lastRead[2]>>
    /\ written.humi # None

\* C4: each metric's memo is the latest non-None value the collector wrote
\* into the metric's field, unset while none was written, so that a sample
\* is compared with the last reported value and not with the last sample.
C4_MemoIsLastReported ==
    \A m \in Metrics : prev[m] = written[m]

\* samples 20, 21: the second is not reported and the memo is still 20,
\* so that a following 22 is significant
C4_Witness ==
    /\ cpc = "lps22hb"
    /\ lastRead # None
    /\ lastRead[1] = 21
    /\ data_set.temp1 = None
    /\ prev.temp1 = <<20>>

\* the fields and memos of each sensor
Shtc3State == <<data_set.temp1, data_set.humi, prev.temp1, prev.humi, written.temp1, written.humi>>
Lps22hbState == <<data_set.temp2, data_set.press, prev.temp2, prev.press, written.temp2, written.press>>

\* C5: a failing sensor read leaves that sensor's fields and memos as they
\* were, the step of one sensor never touches the fields of another, a
\* successful read updates its fields as the filter says whatever failed
\* before it in the tick, and the collector goes on to the next read, to
\* dataShow and to its sleep.
C5_FaultIsolation ==
    [][/\ cpc = "shtc3" =>
             /\ cpc' = "lps22hb"
             /\ Lps22hbState' = Lps22hbState /\ data_set'.rgb888 = data_set.rgb888
             /\ lastRead' = None => Shtc3State' = Shtc3State /\ "shtc3" \in faults'
       /\ cpc = "lps22hb" =>
             /\ cpc' = "tcs34725"
             /\ Shtc3State' = Shtc3State /\ data_set'.rgb888 = data_set.rgb888
             /\ lastRead' = None => Lps22hbState' = Lps22hbState /\ "lps22hb" \in faults'
             /\ lastRead' # None =>
                   /\ Filtered(lastRead'[1], prev.press, data_set'.press, prev'.press)
                   /\ Filtered(lastRead'[2], prev.temp2, data_set'.temp2, prev'.temp2)
       /\ cpc = "tcs34725" =>
             /\ cpc' = "dataShow"
             /\ Shtc3State' = Shtc3State /\ Lps22hbState' = Lps22hbState
             /\ lastRead' = None => data_set'.rgb888 = data_set.rgb888 /\ "tcs34725" \in faults'
             /\ lastRead' # None => data_set'.rgb888 = lastRead'[1]
       /\ cpc = "dataShow" => cpc' = "sleep"
       /\ cpc = "sleep" => cpc' = "enter"]_vars

\* the end of a sampling tick in which only the shtc3 read failed: its
\* fields are as created, the lps22hb and colour fields are updated
C5_Witness ==
    /\ cpc = "dataShow"
    /\ faults = {"shtc3"}
    /\ data_set.temp1 = Some(0) /\ data_set.humi = Some(0)
    /\ prev.temp1 = None /\ prev.humi = None
    /\ data_set.temp2 = <<31>> /\ data_set.press = <<1002>>
    /\ data_set.rgb888 = 16744449

\* the positions of the handshake loop and of a location retry run
Handshaking == upc \in {"handshake", "handshakeSleep"}
RetryCalling == upc \in {"sendLbs", "sendGnss"}
RetrySleeping == upc \in {"sendLbsSleep", "sendGnssSleep"}
RetrySucceeded == upc \in {"sendLbsSuccess", "sendGnssSuccess"}
RetryFailed == upc \in {"sendLbsFail", "sendGnssFail"}

HandshakeBounded ==
    (Handshaking \/ upc \in {"active", "aborted"}) => calls <= 30

\* C6: the handshake polls the status check at most 30 times; a poll is
\* repeated only after a False; the poll that returns True, the k-th after
\* k-1 False polls, takes the uploader to ActiveReporting; 30 False polls
\* take it to Aborted, where it makes no further step.
C6_Handshake ==
    [][/\ HandshakeBounded /\ HandshakeBounded'
       /\ (upc = "handshake" /\ calls > 0) => result = "false" /\ sleeps = calls
       /\ (upc = "handshake" /\ result' = "true") =>
             upc' = "active" /\ calls' = calls + 1 /\ sleeps' = calls
       /\ (upc # "active" /\ upc' = "active") => upc = "handshake" /\ result' = "true"
       /\ (upc = "handshakeSleep" /\ calls = 30 /\ upc' # upc) => upc' = "aborted"
       /\ upc' = "aborted" => calls' = 30 /\ result' = "false"
       /\ upc = "aborted" => UNCHANGED uploaderVars]_vars

\* 29 polls returned False and the 30th True
C6_Witness ==
    /\ upc = "active"
    /\ calls = 30
    /\ sleeps = 29
    /\ result = "true"

\* C7: a location retry run calls the client at most 10 times, repeats the
\* call only after a False, ends at the first True with no call after it,
\* and ends as failed only after exactly 10 calls; 9 False calls and a True
\* one are exactly 10 calls.
C7_BoundedRetry ==
    /\ upc \in UploaderRetry => calls <= 10
    /\ (RetryCalling /\ calls > 0) => result = "false"
    /\ RetrySleeping => result = "false"
    /\ RetrySucceeded => result = "true" /\ calls = sleeps + 1
    /\ result = "true" => RetrySucceeded \/ upc = "active"
    /\ RetryFailed => calls = 10 /\ result = "false"

\* inside an upload tick, the satellite report succeeded at its 10th call
C7_Witness ==
    /\ upc = "sendGnssSuccess"
    /\ ctx = "tick"
    /\ calls = 10
    /\ sleeps = 9

\* C8: a retry run whose calls all fail sleeps 9 times, each sleep between
\* two calls, none after the last call.
C8_SleepsBetweenAttempts ==
    /\ RetryFailed => sleeps = 9
    /\ RetrySleeping => calls < 10

\* C9: the payload passed to sendTsl holds the colour group, key 7, exactly
\* when the tick's timestamp is a multiple of 5, and then with the three
\* channels of the set's rgb888.
C9_ColorEveryFiveSeconds ==
    \A k \in DOMAIN tsl :
        LET payload == tsl[k][2]
            rgb == data_set.rgb888
        IN  /\ (7 \in DOMAIN payload) <=> (timestamp % 5 = 0)
            /\ 7 \in DOMAIN payload =>
                 payload[7] = <<(rgb \div 65536) % 256, (rgb \div 256) % 256, rgb % 256>>

\* C10: a metric is in the payload passed to sendTsl only if its field of
\* the set is not None in this tick, and then with the field's value.
C10_OnlyReportedMetrics ==
    \A k \in DOMAIN tsl : \A m \in Metrics :
        LET payload == tsl[k][2]
        IN  MetricKey[m] \in DOMAIN payload =>
                data_set[m] # None /\ payload[MetricKey[m]] = data_set[m][1]


\* C11: a steady-state tick whose status check returned true ends having
\* called sendTsl exactly once, with profile id 1, whatever its timestamp.
C11_TelemetryEveryReadyTick ==
    (upc = "exit" /\ status = "true") => (Len(tsl) = 1 /\ tsl[1][1] = 1)

\* the location runs of a tick, in the order in which the code reaches them
RunsOf(t, coarseRaised) ==
    (IF t % 1800 = 0 THEN <<"sendLbs">> ELSE <<>>)
        \o (IF t % 60 = 0 /\ ~coarseRaised THEN <<"sendGnss">> ELSE <<>>)

\* this tick's sendTsl call returned, with whatever result
TelemetryReturned == Len(tsl) = 1 /\ tsl[1][3] # "raise"

C13_NotReadyTickTouchesNothing ==
    [][(status = "false" \/ status' = "false") =>
           /\ data_set' = data_set
           /\ readTick' = EmptyMap
           /\ tsl' = <<>>
           /\ runs' = <<>>
           /\ upc' \in {"exit", "sleep"}]_vars

\* a not-ready tick is at its end, after the sampling task has written
\* sensor values to the set
C13_Witness ==
    /\ status = "false" /\ upc = "exit"
    /\ \A m \in Metrics : written[m] # None

\* C14: once the handshake has used up its 30 attempts the upload thread
\* has returned for good, it does not hold the lock, and the sampling
\* thread goes on completing sampling ticks: after every such state, however
\* late, it completes one more sampling tick (the step that leaves the
\* guarded section of getSensorData).
C14_HandshakeExhaustionContained ==
    /\ [](upc = "aborted" => lock # "uploader")
    /\ [][upc = "aborted" => upc' = "aborted"]_vars
    /\ [](upc # "aborted") \/ []<><<CollectorExit>>_vars

\* the upload thread has given up after 30 failed status checks and the
\* sampling thread is inside a sampling tick
C14_Witness ==
    /\ upc = "aborted" /\ calls = HandshakeAttempts
    /\ cpc = "dataShow" /\ lock = "collector"

\* the upload thread has passed the handshake and has not returned
ActiveReporting == upc \notin {"start", "handshake", "handshakeSleep", "aborted", "crashed"}

\* C15: once the upload thread has passed the handshake no step ends it,
\* whatever a client operation raises, the initial location reports
\* included.
C15_ActiveReportingNeverTerminates == [][ActiveReporting => ActiveReporting']_vars

\* where the upload thread is when it is inside one of the two location
\* retry runs
InCoarseRun == upc \in {"sendLbs", "sendLbsSleep", "sendLbsSuccess", "sendLbsFail"}
InSatelliteRun == upc \in {"sendGnss", "sendGnssSleep", "sendGnssSuccess", "sendGnssFail"}

\* a step that keeps the upload thread's order: start, handshake, the
\* initial coarse run to its end, the initial satellite run to its end,
\* the upload ticks
OrderedStep ==
       /\ (upc' = "start" => upc = "start")
       /\ (upc' = "handshake" => upc \in {"start", "handshake", "handshakeSleep"})
       /\ (upc' = "active" /\ upc # "active" => upc = "handshake" /\ result' = "true")
       /\ (upc' # upc /\ (InCoarseRun \/ InSatelliteRun \/ upc \in UploaderSection \/ upc \in {"enter", "sleep"})'
              => ActiveReporting)
       /\ (upc = "active" /\ upc' # upc => upc' = "sendLbs" /\ ctx' = "init")
       /\ (ctx = "init" /\ InCoarseRun /\ upc' # upc => InCoarseRun' \/ upc' = "sendGnss")
       /\ (ctx = "init" /\ upc' = "sendGnss" /\ upc # upc'
              => upc \in {"sendLbsSuccess", "sendLbsFail", "sendGnssSleep"})
       /\ (ctx = "init" /\ InSatelliteRun /\ upc' # upc => InSatelliteRun' \/ upc' = "enter")
       /\ (ctx = "init" /\ upc' = "enter" => upc \in {"sendGnssSuccess", "sendGnssFail"})
       /\ (tsl' # <<>> => ctx' = "tick")

\* C16: start() is called once and before every status check; nothing is
\* sent before a status check has returned true; after the handshake the
\* initial coarse run executes to its end, then, also when its 10 attempts
\* all failed, the initial satellite run executes to its end, and only
\* then the first upload tick, with the first sendTsl call, begins.
C16_UploadOrdering == [][OrderedStep]_vars

\* C17: whichever thread holds the lock gives it up again, on every path
\* through its guarded section, and with a fair lock a thread that waits for
\* the lock gets it: no state is a deadlock of the two threads.
C17_LockReleasedAndGranted ==
    /\ (lock = "collector") ~> (lock # "collector")
    /\ (lock = "uploader") ~> (lock # "uploader")
    /\ (cpc = "enter") ~> (lock = "collector")
    /\ (upc = "enter") ~> (lock = "uploader")

\* the sampling thread waits for the lock while the upload thread sleeps
\* between two attempts of a location report inside its guarded section
C17_Witness ==
    /\ cpc = "enter" /\ lock = "uploader"
    /\ upc = "sendGnssSleep" /\ ctx = "tick"

\* the values the sensors return for a metric
Returned(m) ==
    CASE m = "temp1" -> {r[1] : r \in CoarseShtc3}
      [] m = "humi" -> {r[2] : r \in CoarseShtc3}
      [] m = "press" -> {r[1] : r \in CoarseLps22hb}
      [] m = "temp2" -> {r[2] : r \in CoarseLps22hb}

\* C18: every metric value in a payload passed to sendTsl is a value its
\* sensor returned and that passed the filter into the set; the zeros the
\* set is created with are in no payload.
C18_OnlySensorValuesUploaded ==
    \A k \in DOMAIN tsl : \A m \in Metrics :
        LET payload == tsl[k][2]
        IN  MetricKey[m] \in DOMAIN payload =>
                /\ written[m] # None
                /\ payload[MetricKey[m]] \in Returned(m)

\* C19: with every status check and every sendTsl call returning True, a
\* value the sampling thread has written to a field inside the upload
\* loop stays in the field until a sendTsl call has been passed it: no
\* step overwrites a field whose value is still to be sent.
C19_NoValueLost ==
    [][\A m \in unsent : data_set'[m] = data_set[m]]_vars

\* C20 as stated: no thread is in a utime.sleep(1) while it holds the lock,
\* be it the sleep of a tick or a sleep between two attempts of a location
\* report or of the handshake.
C20_NoSleepHoldingLock ==
    /\ cpc = "sleep" => lock # "collector"
    /\ upc \in {"sleep", "handshakeSleep", "sendLbsSleep", "sendGnssSleep"}
           => lock # "uploader"

\* C20 amended: the sleep of a tick of either thread, the sleeps of the
\* handshake and the sleeps of the initial location reports are taken
\* without the lock; the sleeps between the attempts of a location report
\* made inside an upload tick are taken holding it.
C20_SleepsAndLock ==
    /\ cpc = "sleep" => lock # "collector"
    /\ upc \in {"sleep", "handshakeSleep"} => lock # "uploader"
    /\ upc \in {"sendLbsSleep", "sendGnssSleep"} => (lock = "uploader" <=> ctx = "tick")

\* a coarse run inside an upload tick has slept after each of its 10 failed
\* attempts, holding the lock, with the sampling thread waiting for it
C20_Witness ==
    /\ upc = "sendLbsFail" /\ ctx = "tick" /\ sleeps = RetryAttempts
    /\ lock = "uploader" /\ cpc = "enter"

====
